---- MODULE Spec2Model ----
(***************************************************************************)
(* Salesforce Territory Visualizer (src/tm-app.py).                        *)
(*                                                                         *)
(* The model covers the two computations of the program:                   *)
(*   determine_levels(territories)       lines 49-84                       *)
(*   create_graph(territories, levels)   lines 86-113                      *)
(* and the way main() chains them (lines 204-210).                         *)
(*                                                                         *)
(* A territory is a record [Id, Name, ParentTerritory2Id].  Ids are        *)
(* non-empty Salesforce ids, modelled as 1..NumIds; None (JSON null) is 0, *)
(* so the truth test `if parent:` coincides with parent # None.            *)
(* A Python dict is a function (the mapping) together with the sequence    *)
(* of its keys in insertion order.                                         *)
(***************************************************************************)
EXTENDS Integers, Sequences, FiniteSets, TLC

\* ---------------------------------------------------------------- bounds
MaxRecs == 3          \* longest record list fed to the whole pipeline
NumIds == 3           \* distinct ids a record or a parent link may carry
RecursionLimit == 6   \* interpreter's recursion limit, scaled to the model
GraphRecs == 2        \* longest record list fed to create_graph alone
GNumIds == 2          \* distinct ids in the create_graph-only runs
MaxLevel == 7         \* largest level in a hand-made level map

None == 0
Ids == 1..NumIds
GIds == 1..GNumIds
\* Name is only ever copied into the node label (line 105)
Names == {"n1"}

Territories(I) == [Id : I, Name : Names, ParentTerritory2Id : I \cup {None}]
Lists(S, n) == UNION {[1..k -> S] : k \in 0..n}
LevelMaps(I) == UNION {[D -> 0..MaxLevel] : D \in SUBSET I}

EmptyMap == [x \in {} |-> 0]

VARIABLES
  territories,    \* the list returned by query_salesforce
  levels,         \* dict id -> level
  keys,           \* insertion order of the keys of levels
  children,       \* defaultdict(list): parent id -> child ids, input order
  initial_nodes,  \* list(levels.keys()) taken after the first loop
  li,             \* position of the first loop (line 61)
  ri,             \* position of the loop over initial_nodes (line 81)
  stack,          \* active calls of assign_levels, innermost last
  pc,             \* where the program is
  nodes,          \* dot.node calls so far: <<id, label>>
  edges,          \* dot.edge calls so far: [from, to, color]
  gi,             \* position of the loop of create_graph (line 104)
  run,            \* 1 on the first visualisation, 2 on the repeated one
  prevNodes, prevEdges, prevPc   \* outcome of the first visualisation

vars == <<territories, levels, keys, children, initial_nodes, li, ri, stack,
          pc, nodes, edges, gi, run, prevNodes, prevEdges, prevPc>>

\* ---------------------------------------------------------------- helpers

\* d[k] = v on a dict (the mapping part)
Put(d, k, v) == [x \in (DOMAIN d) \cup {k} |-> IF x = k THEN v ELSE d[x]]

\* d[k] = v on a dict (the key order part): a new key goes last
PutKey(d, ks, k) == IF k \in DOMAIN d THEN ks ELSE Append(ks, k)

\* `if parent:` (lines 63, 106)
Truthy(parent) == parent # None

\* children[parent].append(id)  (line 64)
AppendChild(ch, parent, id) == [ch EXCEPT ![parent] = Append(@, id)]

ChildLevelOff(level) == level
\* the value written at line 77: level + 1
ChildLevel(level) == level + 1

DescendOff(stk, child, level) == stk
\* the recursive call of line 78: a new activation of assign_levels
Descend(stk, child, level) ==
  Append(stk, [node |-> child, level |-> level + 1, idx |-> 1])

\* the palette of line 103
colors == <<"black", "blue", "green", "red", "purple", "orange">>

ColorClamp(level) == colors[IF level < Len(colors) THEN level + 1 ELSE Len(colors)]
\* colors[level % len(colors)]  (line 108; Python lists are 0-based)
Color(level) == colors[(level % Len(colors)) + 1]

SubscriptInserts(lv, id) == IF id \in DOMAIN lv THEN lv ELSE Put(lv, id, 0)
\* levels[territory['Id']] (line 107): levels is a plain dict, so the
\* subscript reads and never inserts (unlike children, a defaultdict)
Subscript(lv, id) == lv

\* ---------------------------------------------------------------- Init

Fresh ==
  /\ levels = EmptyMap
  /\ keys = <<>>
  /\ children = [i \in Ids |-> <<>>]
  /\ initial_nodes = <<>>
  /\ li = 1
  /\ ri = 1
  /\ stack = <<>>
  /\ nodes = <<>>
  /\ edges = <<>>
  /\ gi = 1

Init ==
  /\ territories \in Lists(Territories(Ids), MaxRecs)
  /\ Fresh
  /\ pc = "load"
  /\ run = 1
  /\ prevNodes = <<>> /\ prevEdges = <<>> /\ prevPc = "none"

\* ---------------------------------------------------- determine_levels

\* one iteration of the loop of lines 61-66
LoadStep ==
  /\ pc = "load"
  /\ li <= Len(territories)
  /\ LET territory == territories[li]
         parent == territory.ParentTerritory2Id
     IN IF Truthy(parent)
        THEN /\ children' = AppendChild(children, parent, territory.Id)
             /\ UNCHANGED <<levels, keys>>
        ELSE /\ levels' = Put(levels, territory.Id, 0)
             /\ keys' = PutKey(levels, keys, territory.Id)
             /\ UNCHANGED children
  /\ li' = li + 1
  /\ UNCHANGED <<territories, initial_nodes, ri, stack, pc, nodes, edges, gi,
                 run, prevNodes, prevEdges, prevPc>>

\* end of the first loop; initial_nodes = list(levels.keys())  (line 80)
LoadDone ==
  /\ pc = "load"
  /\ li > Len(territories)
  /\ initial_nodes' = keys
  /\ ri' = 1
  /\ pc' = "roots"
  /\ UNCHANGED <<territories, levels, keys, children, li, stack, nodes, edges,
                 gi, run, prevNodes, prevEdges, prevPc>>

\* for node in initial_nodes: assign_levels(node, 0)  (lines 81-82)
StartRoot ==
  /\ pc = "roots"
  /\ ri <= Len(initial_nodes)
  /\ stack' = <<[node |-> initial_nodes[ri], level |-> 0, idx |-> 1]>>
  /\ ri' = ri + 1
  /\ pc' = "assign"
  /\ UNCHANGED <<territories, levels, keys, children, initial_nodes, li, nodes,
                 edges, gi, run, prevNodes, prevEdges, prevPc>>

\* one iteration of `for child in children[node]` in the innermost call
\* (lines 76-78): write the child's level, then call assign_levels on it.
\* The call raises RecursionError when the stack is full.
AssignChild ==
  /\ pc = "assign"
  /\ LET top == Len(stack)
         f == stack[top]
     IN /\ f.idx <= Len(children[f.node])
        /\ LET child == children[f.node][f.idx]
           IN /\ levels' = Put(levels, child, ChildLevel(f.level))
              /\ keys' = PutKey(levels, keys, child)
              /\ IF top >= RecursionLimit
                 THEN /\ pc' = "RecursionError"
                      /\ UNCHANGED stack
                 ELSE /\ stack' = Descend([stack EXCEPT ![top].idx = @ + 1],
                                          child, f.level)
                      /\ UNCHANGED pc
  /\ UNCHANGED <<territories, children, initial_nodes, li, ri, nodes, edges,
                 gi, run, prevNodes, prevEdges, prevPc>>

\* the innermost call has run out of children and returns
AssignReturn ==
  /\ pc = "assign"
  /\ LET top == Len(stack)
         f == stack[top]
     IN /\ f.idx > Len(children[f.node])
        /\ stack' = SubSeq(stack, 1, top - 1)
        /\ pc' = IF top = 1 THEN "roots" ELSE "assign"
  /\ UNCHANGED <<territories, levels, keys, children, initial_nodes, li, ri,
                 nodes, edges, gi, run, prevNodes, prevEdges, prevPc>>

\* return levels (line 84); main passes it to create_graph (line 210)
RootsDone ==
  /\ pc = "roots"
  /\ ri > Len(initial_nodes)
  /\ pc' = "graph"
  /\ gi' = 1
  /\ UNCHANGED <<territories, levels, keys, children, initial_nodes, li, ri,
                 stack, nodes, edges, run, prevNodes, prevEdges, prevPc>>

\* --------------------------------------------------------- create_graph

\* one iteration of the loop of lines 104-109
GraphStep ==
  /\ pc = "graph"
  /\ gi <= Len(territories)
  /\ LET territory == territories[gi]
         id == territory.Id
         parent == territory.ParentTerritory2Id
     IN /\ nodes' = Append(nodes, <<id, territory.Name>>)
        /\ IF Truthy(parent)
           THEN /\ levels' = Subscript(levels, id)
                /\ IF id \in DOMAIN levels
                   THEN /\ edges' = Append(edges,
                               [from |-> parent, to |-> id,
                                color |-> Color(levels[id])])
                        /\ UNCHANGED pc
                   ELSE /\ pc' = "KeyError"
                        /\ UNCHANGED edges
           ELSE UNCHANGED <<levels, edges, pc>>
  /\ gi' = gi + 1
  /\ UNCHANGED <<territories, keys, children, initial_nodes, li, ri, stack,
                 run, prevNodes, prevEdges, prevPc>>

\* dot.render and return (lines 111-113)
Render ==
  /\ pc = "graph"
  /\ gi > Len(territories)
  /\ pc' = "rendered"
  /\ UNCHANGED <<territories, levels, keys, children, initial_nodes, li, ri,
                 stack, nodes, edges, gi, run, prevNodes, prevEdges, prevPc>>

\* ------------------------------------------------------------------ main

\* "Visualize Territories" pressed again with the org unchanged: the query
\* returns the same records, determine_levels and create_graph run afresh
\* (lines 204-210)
Rerun ==
  /\ pc \in {"rendered", "KeyError"}
  /\ run = 1
  /\ run' = 2
  /\ prevNodes' = nodes /\ prevEdges' = edges /\ prevPc' = pc
  /\ pc' = "load"
  /\ levels' = EmptyMap
  /\ keys' = <<>>
  /\ children' = [i \in Ids |-> <<>>]
  /\ initial_nodes' = <<>>
  /\ li' = 1
  /\ ri' = 1
  /\ stack' = <<>>
  /\ nodes' = <<>>
  /\ edges' = <<>>
  /\ gi' = 1
  /\ UNCHANGED territories

Next ==
  \/ LoadStep
  \/ LoadDone
  \/ StartRoot
  \/ AssignChild
  \/ AssignReturn
  \/ RootsDone
  \/ GraphStep
  \/ Render
  \/ Rerun

Spec == Init /\ [][Next]_vars

\* create_graph on its own: any record list with any level map
InitGraph ==
  /\ territories \in Lists(Territories(GIds), GraphRecs)
  /\ levels \in LevelMaps(GIds)
  /\ keys = <<>>
  /\ children = [i \in GIds |-> <<>>]
  /\ initial_nodes = <<>>
  /\ li = 1 /\ ri = 1 /\ stack = <<>>
  /\ nodes = <<>> /\ edges = <<>> /\ gi = 1
  /\ pc = "graph"
  /\ run = 1
  /\ prevNodes = <<>> /\ prevEdges = <<>> /\ prevPc = "none"

NextGraph ==
  \/ GraphStep
  \/ Render

SpecGraph == InitGraph /\ [][NextGraph]_vars

\* ------------------------------------------------------------ properties

RecIds == {territories[i].Id : i \in 1..Len(territories)}

\* the ids of the input are pairwise distinct
DistinctIds ==
  \A i, j \in 1..Len(territories) :
    i # j => territories[i].Id # territories[j].Id

\* determine_levels has returned its map
Returned == pc \in {"graph", "KeyError", "rendered"}

\* create_graph has ended, normally or not
GraphEnded == pc \in {"rendered", "KeyError"}

\* number of parent links from id to a root, -1 when the chain of parent
\* links leaves the input or does not end within fuel links
RECURSIVE LinksToRoot(_, _)
LinksToRoot(id, fuel) ==
  LET rs == {i \in 1..Len(territories) : territories[i].Id = id}
  IN IF rs = {} THEN -1
     ELSE LET p == territories[CHOOSE i \in rs : TRUE].ParentTerritory2Id
          IN IF p = None THEN 0
             ELSE IF fuel = 0 THEN -1
             ELSE LET d == LinksToRoot(p, fuel - 1)
                  IN IF d < 0 THEN -1 ELSE d + 1

\* the parent ids the records called id name
ParentIds(id) ==
  {territories[i].ParentTerritory2Id :
     i \in {k \in 1..Len(territories) : territories[k].Id = id}} \ {None}

RECURSIVE Closure(_, _)
Closure(S, n) ==
  IF n = 0 THEN S ELSE Closure(S \cup UNION {ParentIds(x) : x \in S}, n - 1)

\* every id reached from id by one or more parent links
AncestorsOf(id) == Closure(ParentIds(id), Len(territories))

IsRootId(id) ==
  \E i \in 1..Len(territories) :
    territories[i].Id = id /\ territories[i].ParentTerritory2Id = None

\* id lies on a parent cycle from which no parent link leads to a root
OnRootlessCycle(id) ==
  /\ id \in AncestorsOf(id)
  /\ \A x \in {id} \cup AncestorsOf(id) : ~IsRootId(x)

\* C1: with pairwise distinct ids, the returned map gives level 0 to every
\* record without a parent and level L+1 to every record whose parent id
\* has level L in the map.
C1_RootZeroChildPlusOne ==
  (Returned /\ DistinctIds) =>
    \A i \in 1..Len(territories) :
      LET t == territories[i]
          p == t.ParentTerritory2Id
      IN /\ p = None => (t.Id \in DOMAIN levels /\ levels[t.Id] = 0)
         /\ (p # None /\ p \in DOMAIN levels) =>
              (t.Id \in DOMAIN levels /\ levels[t.Id] = levels[p] + 1)

\* a returned map of distinct records holding a root, its child and the
\* child's child
C1_Witness ==
  /\ Returned /\ DistinctIds
  /\ \E i \in 1..Len(territories) :
       LET p == territories[i].ParentTerritory2Id
       IN /\ p # None /\ p \in DOMAIN levels /\ levels[p] = 1
          /\ levels[territories[i].Id] = 2

\* C2: determine_levels is total: whatever the record list (duplicate ids,
\* dangling parents, self-parents, cycles), the traversal never raises.
C2_Total == pc # "RecursionError"

\* C3: within one call an id that has a level is never given another value.
C3_SingleAssignment ==
  [][\A id \in DOMAIN levels :
       id \in DOMAIN levels' => levels'[id] = levels[id]]_vars

\* C4: whenever some records form a parent cycle with no path to a root,
\* determine_levels does not fail to terminate and no record of the cycle
\* has an entry in the map.
C4_RootlessCycleSkipped ==
  \A id \in RecIds :
    OnRootlessCycle(id) => (pc # "RecursionError" /\ id \notin DOMAIN levels)

\* C5: a record with a parent and no level does not make create_graph fail
\* with a lookup error; its edge is emitted with the first palette entry.
C5_FallbackColour ==
  /\ pc # "KeyError"
  /\ \A i \in 1..(gi - 1) :
       LET t == territories[i]
       IN (pc \in {"graph", "rendered"} /\ Truthy(t.ParentTerritory2Id)
             /\ t.Id \notin DOMAIN levels) =>
            \E k \in 1..Len(edges) :
              edges[k] = [from |-> t.ParentTerritory2Id, to |-> t.Id,
                          color |-> colors[1]]

Parented == SelectSeq(territories, LAMBDA t : t.ParentTerritory2Id # None)

\* C6: for every record list and the map computed from it, create_graph
\* builds a graph with exactly one edge parent -> id per record that has a
\* parent, and none for a root.
C6_OneEdgePerParentedRecord ==
  GraphEnded =>
    [k \in 1..Len(edges) |-> <<edges[k].from, edges[k].to>>]
      = [k \in 1..Len(Parented) |->
           <<Parented[k].ParentTerritory2Id, Parented[k].Id>>]

\* C7: every record of the input, leveled or not, is a node (id, name) of
\* the graph create_graph builds.
C7_NodePerRecord ==
  GraphEnded =>
    nodes = [k \in 1..Len(territories) |->
               <<territories[k].Id, territories[k].Name>>]

\* C8: the colour of the edge into a leveled record is
\* palette[level mod 6]: equal levels give equal colours, and so do levels
\* congruent modulo the palette length.
C8_ColourByLevel ==
  /\ Len(colors) = 6
  /\ \A i \in 1..Len(edges) :
       /\ edges[i].to \in DOMAIN levels
       /\ edges[i].color = colors[(levels[edges[i].to] % 6) + 1]
       /\ \A j \in 1..Len(edges) :
            (levels[edges[i].to] % 6 = levels[edges[j].to] % 6)
              => edges[i].color = edges[j].color

\* a rendered graph with two edges into records of different levels that
\* are congruent modulo 6
C8_Witness ==
  /\ pc = "rendered"
  /\ \E i, j \in 1..Len(edges) :
       /\ levels[edges[i].to] = 1
       /\ levels[edges[j].to] = 7
       /\ edges[i].color = edges[j].color

\* C9: no step changes the record list, no step of create_graph changes the
\* level map (also when it fails), and the repeated visualisation of the
\* same records ends as the first did, with the same nodes and the same
\* coloured edges in the same order.
C9_FrameAndRepeat ==
  [][/\ territories' = territories
     /\ pc = "graph" => levels' = levels
     /\ (run' = 2 /\ pc' \in {"rendered", "KeyError"}) =>
          (nodes' = prevNodes' /\ edges' = prevEdges' /\ pc' = prevPc')]_vars

\* the repeated visualisation has rendered a graph with an edge
C9_Witness ==
  /\ run = 2
  /\ pc = "rendered"
  /\ Len(edges) >= 1
  /\ nodes = prevNodes /\ edges = prevEdges

\* C10: with pairwise distinct ids, the keys of the returned map are the
\* record ids whose chain of parent links ends at a root, each with the
\* number of links as level; records behind a dangling parent or on a
\* cycle are absent, and no key is ever anything but a record id.
C10_KeysAreRootedRecords ==
  DistinctIds =>
    /\ DOMAIN levels \subseteq RecIds
    /\ Returned =>
         LET Rooted == {id \in RecIds : LinksToRoot(id, Len(territories)) >= 0}
         IN /\ DOMAIN levels = Rooted
            /\ \A id \in Rooted :
                 levels[id] = LinksToRoot(id, Len(territories))

\* a returned map of distinct records with a leveled child and a record
\* left out
C10_Witness ==
  /\ Returned /\ DistinctIds
  /\ \E id \in DOMAIN levels : levels[id] >= 1
  /\ \E id \in RecIds : id \notin DOMAIN levels

====
